---- MODULE Spec2Model ----
(***************************************************************************)
(* ContentCompass (src/app.py): the data-access and credit-metering layer. *)
(* State is Streamlit's st.session_state plus the two pieces of the file   *)
(* system the layer reads and writes (data/.cache.json, data/demo/*.json). *)
(* One action per user interaction / handler of app.py.                    *)
(***************************************************************************)
EXTENDS Naturals, Sequences, FiniteSets, TLC

VARIABLES
    mode,               \* st.session_state.mode: None, "demo", "live"
    virlo_api_key,      \* st.session_state.virlo_api_key
    credits_used,       \* st.session_state.credits_used
    cache,              \* st.session_state.cache: cache_key -> payload
    weekly_plan,        \* st.session_state.weekly_plan
    generated_brief,    \* st.session_state.generated_brief
    enabled_endpoints,  \* st.session_state.enabled_endpoints
    cache_file,         \* CACHE_FILE on disk
    fetched_cost,       \* history: credits_used at session start plus the costs of the requests.get calls issued since
    issued,             \* history: requests.get calls issued since the last Reset App (exploration budget)
    write_failures,     \* history: failed snapshot writes in this behaviour (exploration budget)
    streak,             \* history: the run of identical get_data calls that opened a fresh live session
    fp                  \* the two get_data calls whose cache keys are compared (SpecKey)

vars == <<mode, virlo_api_key, credits_used, cache, weekly_plan, generated_brief,
          enabled_endpoints, cache_file, fetched_cost,
          issued, write_failures, streak, fp>>

(***************************************************************************)
(* Bounds of the exploration.                                              *)
(***************************************************************************)
MaxRemote == 2          \* remote calls issued between two Reset App
MaxWriteFailures == 1   \* failed snapshot writes in one behaviour
MaxStreak == 3          \* length up to which a run of identical calls is counted

(***************************************************************************)
(* Constants of app.py.                                                    *)
(***************************************************************************)
NoneVal == "None"

Endpoints == {"trends", "hashtags", "videos"}

CREDIT_COSTS == [trends |-> 1000, hashtags |-> 10, videos |-> 100]

EmptyPayload == [results |-> 0, data |-> <<>>]

\* The JSON object a successful call of the remote service returns for an endpoint.
RemotePayload(endpoint) == [results |-> 1, data |-> <<"remote:" \o endpoint>>]

\* The JSON object stored in data/demo/<endpoint>.json.
DemoPayload(endpoint) == [results |-> 1, data |-> <<"demo:" \o endpoint>>]

(***************************************************************************)
(* Strings.  Python compares str by code point; Alphabet lists the         *)
(* characters the keyword names use, in code-point order.                  *)
(***************************************************************************)
Alphabet == "_abcdefghijklmnopqrstuvwxyz"

CharAt(s, i) == SubSeq(s, i, i)

Ord(ch) == CHOOSE i \in 1..Len(Alphabet) : CharAt(Alphabet, i) = ch

Min(a, b) == IF a < b THEN a ELSE b

\* a < b for Python str
StrLess(a, b) ==
    \/ \E i \in 1..Min(Len(a), Len(b)) :
          /\ SubSeq(a, 1, i - 1) = SubSeq(b, 1, i - 1)
          /\ Ord(CharAt(a, i)) < Ord(CharAt(b, i))
    \/ Len(a) < Len(b) /\ SubSeq(b, 1, Len(a)) = a

\* sub in s for Python str
Contains(sub, s) ==
    \E i \in 1..(Len(s) + 1) :
        /\ i + Len(sub) - 1 <= Len(s)
        /\ SubSeq(s, i, i + Len(sub) - 1) = sub

(***************************************************************************)
(* json.dumps(kwargs, sort_keys=True).  kwargs is the sequence of          *)
(* <<name, value>> pairs in the order the caller wrote them; a value is    *)
(* IntVal(n) or StrVal(s).                                                 *)
(***************************************************************************)
IntVal(n) == [t |-> "int", i |-> n, s |-> ""]
StrVal(x) == [t |-> "str", i |-> 0, s |-> x]

RECURSIVE JsonEscape(_)
JsonEscape(s) ==
    IF Len(s) = 0 THEN ""
    ELSE LET ch == CharAt(s, 1)
             out == IF ch = "\"" THEN "\\\""
                    ELSE IF ch = "\\" THEN "\\\\"
                    ELSE ch
         IN out \o JsonEscape(SubSeq(s, 2, Len(s)))

JsonValue(v) ==
    IF v.t = "int" THEN ToString(v.i) ELSE "\"" \o JsonEscape(v.s) \o "\""

\* the positions of kwargs, ordered by keyword name
RECURSIVE SortedItems(_)
SortedItems(kwargs) ==
    IF Len(kwargs) = 0 THEN <<>>
    ELSE LET m == CHOOSE i \in 1..Len(kwargs) :
                      \A j \in 1..Len(kwargs) : j # i => StrLess(kwargs[i][1], kwargs[j][1])
             rest == [j \in 1..(Len(kwargs) - 1) |-> IF j < m THEN kwargs[j] ELSE kwargs[j + 1]]
         IN <<kwargs[m]>> \o SortedItems(rest)

RECURSIVE JsonItems(_)
JsonItems(items) ==
    IF Len(items) = 0 THEN ""
    ELSE "\"" \o JsonEscape(items[1][1]) \o "\": " \o JsonValue(items[1][2])
         \o (IF Len(items) > 1 THEN ", " ELSE "")
         \o JsonItems(Tail(items))

JsonDumps(kwargs) == "{" \o JsonItems(SortedItems(kwargs)) \o "}"

\* line 183 without sort_keys=True
CacheKeyUnsorted(endpoint, kwargs) == endpoint \o "_{" \o JsonItems(kwargs) \o "}"

\* cache_key = f"{endpoint}_{json.dumps(kwargs, sort_keys=True)}"
CacheKey(endpoint, kwargs) == endpoint \o "_" \o JsonDumps(kwargs)

(***************************************************************************)
(* The requests explored, one per endpoint: get_data("trends") of          *)
(* show_trend_hub, a hashtags call with the limit keyword, and a videos    *)
(* call with the niche keyword that get_data forwards to the API.          *)
(***************************************************************************)
Request(endpoint, kwargs) == [endpoint |-> endpoint, kwargs |-> kwargs]

Requests ==
    { Request("trends", <<>>),
      Request("hashtags", << <<"limit", IntVal(50)>> >>),
      Request("videos", << <<"niche", StrVal("trends")>> >>) }

ApiKeys == {"", "vrl_a"}

\* line 183 for each request explored
KeyOf == [r \in Requests |-> CacheKey(r.endpoint, r.kwargs)]

(***************************************************************************)
(* The cache dictionary.                                                   *)
(***************************************************************************)
EmptyCache == [k \in {} |-> EmptyPayload]

\* cache.setdefault(key, data): an entry already stored is kept
CachePutIfAbsent(c, key, data) ==
    [k \in (DOMAIN c) \cup {key} |-> IF k \in DOMAIN c THEN c[k] ELSE data]

\* cache[key] = data
CachePut(c, key, data) ==
    [k \in (DOMAIN c) \cup {key} |-> IF k = key THEN data ELSE c[k]]

\* for k in keys: del cache[k]
CacheDel(c, keys) == [k \in (DOMAIN c) \ keys |-> c[k]]

(***************************************************************************)
(* save_cache_to_file / load_cache_from_file.  The JSON document holds     *)
(* Python None as null; the file is absent, unparsable, or holds a         *)
(* document.                                                               *)
(***************************************************************************)
JsonNull == "null"

ToJson(v) == IF v = NoneVal THEN JsonNull ELSE v

FromJson(j) == IF j = JsonNull THEN NoneVal ELSE j

EmptyDoc ==
    [cache |-> EmptyCache, weekly_plan |-> JsonNull, generated_brief |-> JsonNull,
     credits_used |-> 0, timestamp |-> ""]

NoFile == [exists |-> FALSE, wellformed |-> FALSE, doc |-> EmptyDoc]

TruncatedFile == [exists |-> TRUE, wellformed |-> FALSE, doc |-> EmptyDoc]

\* the cache_data dictionary of save_cache_to_file, as json.dump writes it: the
\* cache keys are str and the payloads came out of json.load or r.json(), so they
\* are written as they are; None becomes null
SnapshotDoc(c, plan, brief, credits) ==
    [cache |-> c, weekly_plan |-> ToJson(plan), generated_brief |-> ToJson(brief),
     credits_used |-> credits, timestamp |-> "now"]

\* what the write can do: complete, raise before the file is opened, or raise
\* after open(CACHE_FILE, "w") truncated it
WriteOutcomes == {"ok", "unwritten", "truncated"}

\* CACHE_FILE after save_cache_to_file() ran with write outcome w
save_cache_to_file(w, file, c, plan, brief, credits) ==
    IF w = "ok" THEN [exists |-> TRUE, wellformed |-> TRUE,
                      doc |-> SnapshotDoc(c, plan, brief, credits)]
    ELSE IF w = "truncated" THEN TruncatedFile
    ELSE file

\* load_cache_from_file that forgets line 116
LoadWithoutCredits(file) ==
    IF file.exists /\ file.wellformed
    THEN [raised |-> FALSE, cache |-> file.doc.cache,
          weekly_plan |-> FromJson(file.doc.weekly_plan),
          generated_brief |-> FromJson(file.doc.generated_brief),
          credits_used |-> 0]
    ELSE [raised |-> FALSE, cache |-> EmptyCache, weekly_plan |-> NoneVal,
          generated_brief |-> NoneVal, credits_used |-> 0]

\* load_cache_from_file without its try / except: json.load raises on a file that
\* does not parse
LoadUncaught(file) ==
    IF file.exists /\ file.wellformed
    THEN [raised |-> FALSE, cache |-> file.doc.cache,
          weekly_plan |-> FromJson(file.doc.weekly_plan),
          generated_brief |-> FromJson(file.doc.generated_brief),
          credits_used |-> file.doc.credits_used]
    ELSE [raised |-> file.exists, cache |-> EmptyCache, weekly_plan |-> NoneVal,
          generated_brief |-> NoneVal, credits_used |-> 0]

\* the four session fields after load_cache_from_file() ran on a new session, and
\* whether it raised: json.load raises on a file that does not parse, before any
\* field is assigned, and except Exception: pass catches it
load_cache_from_file(file) ==
    IF file.exists /\ file.wellformed
    THEN [raised |-> FALSE, cache |-> file.doc.cache,
          weekly_plan |-> FromJson(file.doc.weekly_plan),
          generated_brief |-> FromJson(file.doc.generated_brief),
          credits_used |-> file.doc.credits_used]
    ELSE [raised |-> FALSE, cache |-> EmptyCache, weekly_plan |-> NoneVal,
          generated_brief |-> NoneVal, credits_used |-> 0]

(***************************************************************************)
(* load_demo.                                                              *)
(***************************************************************************)
DemoStatus == {"present", "absent", "malformed"}

\* [raised, data] for the state demo of the endpoint's file (generate_demo_data.py
\* rewrites the files at any time): json.load raises on a malformed file, and
\* load_demo does not catch it
load_demo(endpoint, demo) ==
    IF demo = "present" THEN [raised |-> FALSE, data |-> DemoPayload(endpoint)]
    ELSE IF demo = "absent" THEN [raised |-> FALSE, data |-> EmptyPayload]
    ELSE [raised |-> TRUE, data |-> EmptyPayload]

(***************************************************************************)
(* VirloAPI and get_data.                                                  *)
(***************************************************************************)
NetOutcomes == {"ok", "fail"}

\* VirloAPI._get: the JSON of the response, or the empty payload on RequestException
ApiGet(endpoint, net) == IF net = "ok" THEN RemotePayload(endpoint) ELSE EmptyPayload

\* VirloAPI.get_trends_digest / get_hashtags / get_videos_digest: the charge comes
\* first, then the call
ApiCharge(credits, endpoint) == credits + CREDIT_COSTS[endpoint]

Truthy(s) == s # NoneVal /\ s # ""

\* the live branch with a save_cache_to_file that lets the write error out: the
\* entry is stored and charged, and get_data never returns
LiveFetchWriteRaises(endpoint, key, net, w) ==
    LET charged == ApiCharge(credits_used, endpoint)
        data == ApiGet(endpoint, net)
        stored == CachePut(cache, key, data)
    IN [outcome |-> IF w # "ok" THEN "RAISED" ELSE IF net = "ok" THEN "LIVE" ELSE "FAILED",
        ret |-> IF w # "ok" THEN EmptyPayload ELSE data,
        cache |-> stored, credits_used |-> charged,
        cache_file |-> save_cache_to_file(w, cache_file, stored, weekly_plan,
                                          generated_brief, charged),
        remote |-> TRUE, saved |-> TRUE]

\* the live branch of get_data (lines 191-211)
LiveFetch(endpoint, key, net, w) ==
    LET charged == ApiCharge(credits_used, endpoint)
        data == ApiGet(endpoint, net)
        stored == CachePut(cache, key, data)
    IN [outcome |-> IF net = "ok" THEN "LIVE" ELSE "FAILED",
        ret |-> data, cache |-> stored, credits_used |-> charged,
        cache_file |-> save_cache_to_file(w, cache_file, stored, weekly_plan,
                                          generated_brief, charged),
        remote |-> TRUE, saved |-> TRUE]

\* the demo branch, charging like the live one
OfflineReadCharged(endpoint, key, demo) ==
    LET got == load_demo(endpoint, demo)
    IN [outcome |-> IF got.raised THEN "RAISED" ELSE "OFFLINE", ret |-> got.data,
        cache |-> IF got.raised THEN cache ELSE CachePut(cache, key, got.data),
        credits_used |-> ApiCharge(credits_used, endpoint), cache_file |-> cache_file,
        remote |-> FALSE, saved |-> FALSE]

\* the demo branch of get_data (lines 212-219)
OfflineRead(endpoint, key, demo) ==
    LET got == load_demo(endpoint, demo)
    IN IF got.raised
       THEN [outcome |-> "RAISED", ret |-> EmptyPayload, cache |-> cache,
             credits_used |-> credits_used, cache_file |-> cache_file,
             remote |-> FALSE, saved |-> FALSE]
       ELSE [outcome |-> "OFFLINE", ret |-> got.data,
             cache |-> CachePut(cache, key, got.data),
             credits_used |-> credits_used, cache_file |-> cache_file,
             remote |-> FALSE, saved |-> FALSE]

Unchanged(outcome, ret) ==
    [outcome |-> outcome, ret |-> ret, cache |-> cache, credits_used |-> credits_used,
     cache_file |-> cache_file, remote |-> FALSE, saved |-> FALSE]

\* what the environment does during one call: the remote service, the snapshot
\* write, the demo file
Env(net, w, demo) == [net |-> net, w |-> w, demo |-> demo]

Calm == Env("ok", "ok", "present")

\* get_data without the lookup of line 185
BranchNoLookup(endpoint, cache_key, force_refresh) ==
    IF ~enabled_endpoints[endpoint] THEN "GATED"
    ELSE IF mode = "live" /\ Truthy(virlo_api_key) THEN "LIVE"
    ELSE "OFFLINE"

\* the branch get_data takes (lines 185, 188, 191)
Branch(endpoint, cache_key, force_refresh) ==
    IF ~force_refresh /\ cache_key \in DOMAIN cache THEN "HIT"
    ELSE IF ~enabled_endpoints[endpoint] THEN "GATED"
    ELSE IF mode = "live" /\ Truthy(virlo_api_key) THEN "LIVE"
    ELSE "OFFLINE"

\* get_data storing the empty payload of a gated call under the key
get_data_caching_gate(endpoint, cache_key, force_refresh, env) ==
    LET branch == Branch(endpoint, cache_key, force_refresh)
    IN IF branch = "HIT" THEN Unchanged("HIT", cache[cache_key])
       ELSE IF branch = "GATED"
       THEN [Unchanged("GATED", EmptyPayload) EXCEPT
                !.cache = CachePut(cache, cache_key, EmptyPayload)]
       ELSE IF branch = "LIVE" THEN LiveFetch(endpoint, cache_key, env.net, env.w)
       ELSE OfflineRead(endpoint, cache_key, env.demo)

\* get_data(endpoint, force_refresh, **kwargs) run on the current session state,
\* cache_key being the key line 183 computes
get_data(endpoint, cache_key, force_refresh, env) ==
    LET branch == Branch(endpoint, cache_key, force_refresh)
    IN IF branch = "HIT" THEN Unchanged("HIT", cache[cache_key])
       ELSE IF branch = "GATED" THEN Unchanged("GATED", EmptyPayload)
       ELSE IF branch = "LIVE" THEN LiveFetch(endpoint, cache_key, env.net, env.w)
       ELSE OfflineRead(endpoint, cache_key, env.demo)

\* the environments that differ for a call taking the given branch
Envs(branch) ==
    IF branch = "LIVE" THEN { Env(net, w, "present") : net \in NetOutcomes, w \in WriteOutcomes }
    ELSE IF branch = "OFFLINE" THEN { Env("ok", "ok", demo) : demo \in DemoStatus }
    ELSE { Calm }

(***************************************************************************)
(* History bookkeeping (not program state).                                *)
(***************************************************************************)
NoStreak == [key |-> "", n |-> 0, remote |-> 0, first |-> ""]

\* a live session in which nothing was fetched yet
Fresh ==
    /\ mode = "live" /\ Truthy(virlo_api_key)
    /\ credits_used = 0 /\ cache = EmptyCache /\ issued = 0

\* the run after one more get_data call: it starts with a call in a fresh live
\* session and goes on while the same unforced call is repeated
StreakAfter(key, force, res) ==
    IF force \/ res.outcome = "RAISED" THEN NoStreak
    ELSE IF streak.n > 0 /\ streak.key = key
    THEN [streak EXCEPT !.n = Min(streak.n + 1, MaxStreak),
                        !.remote = streak.remote + (IF res.remote THEN 1 ELSE 0)]
    ELSE IF Fresh
    THEN [key |-> key, n |-> 1, remote |-> IF res.remote THEN 1 ELSE 0,
          first |-> res.outcome]
    ELSE NoStreak

Failed(w) == IF w = "ok" THEN 0 ELSE 1

(***************************************************************************)
(* Session start: the SESSION STATE INIT block (lines 15-36) followed by   *)
(* the startup load (lines 123-125).                                       *)
(***************************************************************************)
AllEnabled == [e \in Endpoints |-> TRUE]

\* the checkbox settings explored: at most one endpoint unchecked
EnabledConfigs ==
    { f \in [Endpoints -> BOOLEAN] : Cardinality({e \in Endpoints : ~f[e]}) <= 1 }

FpIdle == [a |-> Request("trends", <<>>), b |-> Request("trends", <<>>),
           ka |-> "", kb |-> "", done |-> TRUE]

NewSession(file) ==
    LET loaded == load_cache_from_file(file)
    IN /\ mode' = NoneVal
       /\ virlo_api_key' = NoneVal
       /\ credits_used' = loaded.credits_used
       /\ cache' = loaded.cache
       /\ weekly_plan' = loaded.weekly_plan
       /\ generated_brief' = loaded.generated_brief
       /\ enabled_endpoints' = AllEnabled
       /\ fetched_cost' = loaded.credits_used
       /\ streak' = NoStreak

InitSession ==
    /\ mode = NoneVal
    /\ virlo_api_key = NoneVal
    /\ credits_used = 0
    /\ cache = EmptyCache
    /\ weekly_plan = NoneVal
    /\ generated_brief = NoneVal
    /\ enabled_endpoints = AllEnabled
    /\ cache_file = NoFile
    /\ fetched_cost = 0
    /\ issued = 0
    /\ write_failures = 0
    /\ streak = NoStreak

Init ==
    /\ InitSession
    /\ fp = FpIdle

(***************************************************************************)
(* show_welcome (lines 224-264).                                           *)
(***************************************************************************)
\* a checkbox of "Select endpoints to fetch" is toggled
ToggleEndpoint(e) ==
    /\ mode = NoneVal
    /\ enabled_endpoints' = [enabled_endpoints EXCEPT ![e] = ~enabled_endpoints[e]]
    /\ enabled_endpoints' \in EnabledConfigs
    /\ streak' = NoStreak
    /\ UNCHANGED <<mode, virlo_api_key, credits_used, cache, weekly_plan, generated_brief,
                   cache_file, fetched_cost, issued,
                   write_failures, fp>>

TryDemo ==
    /\ mode = NoneVal
    /\ mode' = "demo"
    /\ streak' = NoStreak
    /\ UNCHANGED <<virlo_api_key, credits_used, cache, weekly_plan, generated_brief,
                   enabled_endpoints, cache_file, fetched_cost,
                   issued, write_failures, fp>>

ConnectGoLive(api_key) ==
    /\ mode = NoneVal
    /\ Truthy(api_key)
    /\ mode' = "live"
    /\ virlo_api_key' = api_key
    /\ cache' = EmptyCache
    /\ streak' = NoStreak
    /\ UNCHANGED <<credits_used, weekly_plan, generated_brief, enabled_endpoints,
                   cache_file, fetched_cost, issued,
                   write_failures, fp>>

(***************************************************************************)
(* A page calls get_data (lines 271, 275, 389).                            *)
(***************************************************************************)
\* one call, the environment doing env during it
GetDataWith(r, force, env) ==
    LET key == KeyOf[r]
        res == get_data(r.endpoint, key, force, env)
    IN /\ mode # NoneVal
       /\ res.remote => issued < MaxRemote
       /\ res.saved /\ env.w # "ok" => write_failures < MaxWriteFailures
       /\ cache' = res.cache
       /\ credits_used' = res.credits_used
       /\ cache_file' = res.cache_file
       /\ fetched_cost' = fetched_cost + (IF res.remote THEN CREDIT_COSTS[r.endpoint] ELSE 0)
       /\ issued' = issued + (IF res.remote THEN 1 ELSE 0)
       /\ write_failures' = write_failures + (IF res.saved THEN Failed(env.w) ELSE 0)
       /\ streak' = StreakAfter(key, force, res)
       /\ UNCHANGED <<mode, virlo_api_key, weekly_plan, generated_brief, enabled_endpoints,
                      fp>>

GetData(r, force) ==
    \E env \in Envs(Branch(r.endpoint, KeyOf[r], force)) : GetDataWith(r, force, env)

(***************************************************************************)
(* show_weekly_blueprint and show_brief_creator (lines 464-769).           *)
(***************************************************************************)
PlanValue == "plan"

\* the key of get_data("trends") (line 480)
TrendsKey == CacheKey("trends", <<>>)

BriefValue == "brief"

\* "Generate My Week": get_data("trends"), then the plan is stored and saved
GeneratePlan(w2) ==
    /\ mode # NoneVal
    /\ \E env \in Envs(Branch("trends", TrendsKey, FALSE)) :
          LET res == get_data("trends", TrendsKey, FALSE, env)
              fails == (IF res.saved THEN Failed(env.w) ELSE 0) + Failed(w2)
          IN /\ res.outcome # "RAISED"
             /\ res.remote => issued < MaxRemote
             /\ write_failures + fails <= MaxWriteFailures
             /\ cache' = res.cache
             /\ credits_used' = res.credits_used
             /\ weekly_plan' = PlanValue
             /\ cache_file' = save_cache_to_file(w2, res.cache_file, res.cache, PlanValue,
                                                 generated_brief, res.credits_used)
             /\ fetched_cost' = fetched_cost + (IF res.remote THEN CREDIT_COSTS["trends"] ELSE 0)
             /\ issued' = issued + (IF res.remote THEN 1 ELSE 0)
             /\ write_failures' = write_failures + fails
    /\ streak' = NoStreak
    /\ UNCHANGED <<mode, virlo_api_key, generated_brief, enabled_endpoints,
                   fp>>

\* the session fields a handler that only rewrites the plan or the brief leaves alone
OnlyArtifacts(w) ==
    /\ mode # NoneVal
    /\ w # "ok" => write_failures < MaxWriteFailures
    /\ write_failures' = write_failures + Failed(w)
    /\ streak' = NoStreak
    /\ UNCHANGED <<mode, virlo_api_key, credits_used, cache, enabled_endpoints,
                   fetched_cost, issued, fp>>

ClearPlan(w) ==
    /\ weekly_plan # NoneVal
    /\ OnlyArtifacts(w)
    /\ weekly_plan' = NoneVal
    /\ cache_file' = save_cache_to_file(w, cache_file, cache, NoneVal, generated_brief,
                                        credits_used)
    /\ UNCHANGED generated_brief

GenerateBrief(w) ==
    /\ OnlyArtifacts(w)
    /\ generated_brief' = BriefValue
    /\ cache_file' = save_cache_to_file(w, cache_file, cache, weekly_plan, BriefValue,
                                        credits_used)
    /\ UNCHANGED weekly_plan

ClearBrief(w) ==
    /\ generated_brief # NoneVal
    /\ OnlyArtifacts(w)
    /\ generated_brief' = NoneVal
    /\ cache_file' = save_cache_to_file(w, cache_file, cache, weekly_plan, NoneVal,
                                        credits_used)
    /\ UNCHANGED weekly_plan

(***************************************************************************)
(* The sidebar of main (lines 851-877).                                    *)
(***************************************************************************)
RefreshOptions == {"All Data", "Trends", "Hashtags", "Videos"}

\* refresh_target.lower()
Lower(option) ==
    IF option = "Trends" THEN "trends"
    ELSE IF option = "Hashtags" THEN "hashtags"
    ELSE IF option = "Videos" THEN "videos"
    ELSE "all data"

\* keys_to_remove = [k for k in cache.keys() if target_key in k]
KeysToRemove(c, target_key) == {k \in DOMAIN c : Contains(target_key, k)}

\* the cache the Refresh Data button leaves
Refreshed(c, refresh_target) ==
    IF refresh_target = "All Data" THEN EmptyCache
    ELSE CacheDel(c, KeysToRemove(c, Lower(refresh_target)))

RefreshData(refresh_target, w) ==
    /\ mode # NoneVal
    /\ w # "ok" => write_failures < MaxWriteFailures
    /\ cache' = Refreshed(cache, refresh_target)
    /\ cache_file' = save_cache_to_file(w, cache_file, cache', weekly_plan, generated_brief,
                                        credits_used)
    /\ write_failures' = write_failures + Failed(w)
    /\ streak' = NoStreak
    /\ UNCHANGED <<mode, virlo_api_key, credits_used, weekly_plan, generated_brief,
                   enabled_endpoints, fetched_cost, issued, fp>>

\* "Go Live" of the sidebar, shown in demo mode
SidebarGoLive(key) ==
    /\ mode = "demo"
    /\ Truthy(key)
    /\ mode' = "live"
    /\ virlo_api_key' = key
    /\ cache' = EmptyCache
    /\ streak' = NoStreak
    /\ UNCHANGED <<credits_used, weekly_plan, generated_brief, enabled_endpoints,
                   cache_file, fetched_cost, issued,
                   write_failures, fp>>

(***************************************************************************)
(* show_settings (lines 774-821).                                          *)
(***************************************************************************)
\* a handler of the page that zeroes the meter when it clears the cache
CreditsZeroedOnSwitch(credits) == 0

\* credits_used after a handler of the page: none of them assigns it
CreditsAfterSwitch(credits) == credits

\* a handler that forgets st.session_state.cache = {}
KeptCache(c) == c

\* st.session_state.cache = {} (lines 793, 802, 810)
ClearedCache(c) == EmptyCache

\* what the three cache-clearing buttons of the page share
SettingsStep(w) ==
    /\ mode # NoneVal
    /\ w # "ok" => write_failures < MaxWriteFailures
    /\ cache' = ClearedCache(cache)
    /\ write_failures' = write_failures + Failed(w)
    /\ streak' = NoStreak
    /\ UNCHANGED <<enabled_endpoints, fetched_cost, issued, fp>>

\* Switch to Demo without st.session_state.virlo_api_key = None
SwitchToDemoKeepsKey(w) ==
    /\ mode # "demo"
    /\ SettingsStep(w)
    /\ mode' = "demo"
    /\ virlo_api_key' = virlo_api_key
    /\ credits_used' = CreditsAfterSwitch(credits_used)
    /\ cache_file' = save_cache_to_file(w, cache_file, cache', weekly_plan,
                                        generated_brief, credits_used')
    /\ UNCHANGED <<weekly_plan, generated_brief>>

SwitchToDemo(w) ==
    /\ mode # "demo"
    /\ SettingsStep(w)
    /\ mode' = "demo"
    /\ virlo_api_key' = NoneVal
    /\ credits_used' = CreditsAfterSwitch(credits_used)
    /\ cache_file' = save_cache_to_file(w, cache_file, cache', weekly_plan,
                                        generated_brief, credits_used')
    /\ UNCHANGED <<weekly_plan, generated_brief>>

SettingsGoLive(new_key, w) ==
    /\ Truthy(new_key)
    /\ SettingsStep(w)
    /\ mode' = "live"
    /\ virlo_api_key' = new_key
    /\ credits_used' = CreditsAfterSwitch(credits_used)
    /\ cache_file' = save_cache_to_file(w, cache_file, cache', weekly_plan,
                                        generated_brief, credits_used')
    /\ UNCHANGED <<weekly_plan, generated_brief>>

ClearCache(w) ==
    /\ SettingsStep(w)
    /\ weekly_plan' = NoneVal
    /\ generated_brief' = NoneVal
    /\ credits_used' = CreditsAfterSwitch(credits_used)
    /\ cache_file' = save_cache_to_file(w, cache_file, cache', NoneVal, NoneVal,
                                        credits_used')
    /\ UNCHANGED <<mode, virlo_api_key>>

\* Reset App without CACHE_FILE.unlink(): the rerun loads the snapshot again
ResetAppKeepsFile ==
    /\ mode # NoneVal
    /\ cache_file' = cache_file
    /\ NewSession(cache_file)
    /\ issued' = 0
    /\ UNCHANGED <<write_failures, fp>>

\* "Reset App": every session key deleted, CACHE_FILE unlinked, then the rerun
\* initialises the session again and loads nothing
ResetApp ==
    /\ mode # NoneVal
    /\ cache_file' = NoFile
    /\ NewSession(NoFile)
    /\ issued' = 0
    /\ UNCHANGED <<write_failures, fp>>

(***************************************************************************)
(* A new session (process restart or page reload): lines 15-36, 123-125.   *)
(***************************************************************************)
Restart ==
    /\ mode # NoneVal \/ cache_file.exists
    /\ NewSession(cache_file)
    /\ UNCHANGED <<cache_file, issued, write_failures, fp>>

(***************************************************************************)
(* The specification of the session.                                       *)
(***************************************************************************)
Next ==
    \/ \E e \in Endpoints : ToggleEndpoint(e)
    \/ TryDemo
    \/ \E k \in ApiKeys : ConnectGoLive(k)
    \/ \E r \in Requests, force \in BOOLEAN : GetData(r, force)
    \/ \E w \in WriteOutcomes : SwitchToDemo(w)
    \/ \E k \in ApiKeys, w \in WriteOutcomes : SettingsGoLive(k, w)
    \/ \E w \in WriteOutcomes : ClearCache(w)
    \/ \E t \in RefreshOptions, w \in WriteOutcomes : RefreshData(t, w)
    \/ \E k \in ApiKeys : SidebarGoLive(k)
    \/ ResetApp
    \/ Restart

Spec == Init /\ [][Next]_vars

(***************************************************************************)
(* The plan and brief handlers added to the session: they rewrite the      *)
(* snapshot but touch neither the cache nor the meter beyond what          *)
(* get_data("trends") does.                                                *)
(***************************************************************************)
NextArtifacts ==
    \/ Next
    \/ \E w \in WriteOutcomes : GeneratePlan(w)
    \/ \E w \in WriteOutcomes : ClearPlan(w)
    \/ \E w \in WriteOutcomes : GenerateBrief(w)
    \/ \E w \in WriteOutcomes : ClearBrief(w)

SpecArtifacts == Init /\ [][NextArtifacts]_vars

(***************************************************************************)
(* Sessions that end in Reset App: the welcome page, get_data, the plan    *)
(* and the brief, then the button of lines 816-821.                        *)
(***************************************************************************)
NextReset ==
    \/ \E e \in Endpoints : ToggleEndpoint(e)
    \/ TryDemo
    \/ \E k \in ApiKeys : ConnectGoLive(k)
    \/ \E r \in Requests, force \in BOOLEAN : GetData(r, force)
    \/ \E w \in WriteOutcomes : GeneratePlan(w)
    \/ \E w \in WriteOutcomes : GenerateBrief(w)
    \/ ResetApp

SpecReset == Init /\ [][NextReset]_vars

(***************************************************************************)
(* The cache key as a function: two calls are drawn, line 183 is applied   *)
(* to both.                                                                *)
(***************************************************************************)
KeyKwargs ==
    { <<>>,
      << <<"limit", IntVal(50)>> >>,
      << <<"limit", IntVal(20)>> >>,
      << <<"limit", StrVal("50")>> >>,
      << <<"order_by", StrVal("views")>> >>,
      << <<"limit", IntVal(50)>>, <<"order_by", StrVal("views")>> >>,
      << <<"order_by", StrVal("views")>>, <<"limit", IntVal(50)>> >>,
      << <<"niche", StrVal("trends")>> >>,
      << <<"niche", StrVal("a\"_{}")>>, <<"limit", IntVal(20)>> >>,
      << <<"limit", IntVal(20)>>, <<"niche", StrVal("a\"_{}")>> >> }

KeyRequests == { Request(e, k) : e \in {"hashtags", "videos"}, k \in KeyKwargs }

\* the key/value pairs of a call, whatever their order
Pairs(kwargs) == { kwargs[i] : i \in DOMAIN kwargs }

InitKey ==
    /\ InitSession
    /\ fp \in { [a |-> x, b |-> y, ka |-> "", kb |-> "", done |-> FALSE] :
                   x \in KeyRequests, y \in KeyRequests }

ComputeKeys ==
    /\ ~fp.done
    /\ fp' = [fp EXCEPT !.ka = CacheKey(fp.a.endpoint, fp.a.kwargs),
                        !.kb = CacheKey(fp.b.endpoint, fp.b.kwargs),
                        !.done = TRUE]
    /\ UNCHANGED <<mode, virlo_api_key, credits_used, cache, weekly_plan, generated_brief,
                   enabled_endpoints, cache_file, fetched_cost, issued, write_failures,
                   streak>>

SpecKey == InitKey /\ [][ComputeKeys]_vars

(***************************************************************************)
(* Properties.                                                             *)
(***************************************************************************)
HashtagsKey == CacheKey("hashtags", << <<"limit", IntVal(50)>> >>)

Failing(w) == Env("fail", w, "present")

\* C1: in every reachable state credits_used equals its value at session start
\* plus the fixed costs of the requests.get calls issued since (fetched_cost counts
\* a call whether it succeeded or failed, and starts again at Reset App); cache
\* hits, gated calls and offline reads leave it alone.
C1_CreditsAreFetchCosts == credits_used = fetched_cost

\* two remote fetches were charged, the session went to demo and read offline
C1_Witness ==
    /\ mode = "demo"
    /\ credits_used = CREDIT_COSTS["trends"] + CREDIT_COSTS["hashtags"]
    /\ TrendsKey \in DOMAIN cache
    /\ cache[TrendsKey] = DemoPayload("trends")

\* C2: a get_data call in Live mode whose remote call fails returns zero records
\* and leaves credits_used as it was.
C2_FailedFetchIsFree ==
    [][\A r \in Requests, force \in BOOLEAN, w \in WriteOutcomes :
          (/\ Branch(r.endpoint, KeyOf[r], force) = "LIVE"
           /\ GetDataWith(r, force, Failing(w)))
          => /\ get_data(r.endpoint, KeyOf[r], force, Failing(w)).ret.results = 0
             /\ credits_used' = credits_used]_vars

\* C3: after a get_data call in Live mode whose remote call fails the cache has no
\* entry for the key, and the same call would go to the remote service again.
C3_FailureNotCached ==
    [][\A r \in Requests, w \in WriteOutcomes :
          (/\ Branch(r.endpoint, KeyOf[r], FALSE) = "LIVE"
           /\ GetDataWith(r, FALSE, Failing(w)))
          => /\ KeyOf[r] \notin DOMAIN cache'
             /\ (Branch(r.endpoint, KeyOf[r], FALSE))' = "LIVE"]_vars

\* C4: in every reachable state of a running session and whatever the environment
\* does, a get_data call removes no cached key, a call that completes as a LIVE or
\* OFFLINE read leaves its key in the cache, and an unforced call for a cached key
\* is a hit that issues no remote call and leaves credits_used and the cache alone;
\* so repeats without an invalidation in between are free.  And three consecutive
\* get_data("hashtags", limit=50) calls that open a fresh Live session with a
\* successful response issue exactly one remote call and leave credits_used = 10.
C4_RepeatsAreFree ==
    /\ mode # NoneVal =>
          \A r \in Requests, force \in BOOLEAN :
             \A env \in Envs(Branch(r.endpoint, KeyOf[r], force)) :
                LET res == get_data(r.endpoint, KeyOf[r], force, env)
                IN /\ DOMAIN cache \subseteq DOMAIN res.cache
                   /\ res.outcome \in {"LIVE", "OFFLINE"} => KeyOf[r] \in DOMAIN res.cache
                   /\ (~force /\ KeyOf[r] \in DOMAIN cache) =>
                         /\ res.outcome = "HIT"
                         /\ ~res.remote
                         /\ res.credits_used = credits_used
                         /\ res.cache = cache
    /\ (streak.n >= 3 /\ streak.key = HashtagsKey /\ streak.first = "LIVE")
          => streak.remote = 1 /\ credits_used = 10

\* the third of three identical hashtags calls in a fresh Live session has returned
C4_Witness ==
    /\ streak.n >= 3
    /\ streak.key = HashtagsKey
    /\ streak.first = "LIVE"
    /\ HashtagsKey \in DOMAIN cache

\* C5: in every reachable state of a running session, get_data on an endpoint
\* whose checkbox is off returns zero records and leaves credits_used alone.
C5_DisabledIsEmpty ==
    \A r \in Requests, force \in BOOLEAN :
       (mode # NoneVal /\ ~enabled_endpoints[r.endpoint]) =>
          \A env \in Envs(Branch(r.endpoint, KeyOf[r], force)) :
             LET res == get_data(r.endpoint, KeyOf[r], force, env)
             IN /\ res.ret.results = 0
                /\ res.credits_used = credits_used

\* C6: Refresh Data for one category removes every entry of that category and
\* leaves every entry of every other category in place, payload unchanged.
C6_RefreshIsSelective ==
    [][\A t \in RefreshOptions \ {"All Data"}, w \in WriteOutcomes :
          RefreshData(t, w) =>
             \A r \in Requests :
                IF r.endpoint = Lower(t)
                THEN KeyOf[r] \notin DOMAIN cache'
                ELSE KeyOf[r] \in DOMAIN cache =>
                        /\ KeyOf[r] \in DOMAIN cache'
                        /\ cache'[KeyOf[r]] = cache[KeyOf[r]]]_vars

\* C7: immediately after Switch to Demo, Go Live (Settings), Go Live (sidebar),
\* Connect & Go Live and Clear Cache, credits_used is 0.
C7_SwitchResetsCredits ==
    [][(\/ \E w \in WriteOutcomes : SwitchToDemo(w)
        \/ \E k \in ApiKeys, w \in WriteOutcomes : SettingsGoLive(k, w)
        \/ \E k \in ApiKeys : SidebarGoLive(k)
        \/ \E k \in ApiKeys : ConnectGoLive(k)
        \/ \E w \in WriteOutcomes : ClearCache(w))
       => credits_used' = 0]_vars

\* C8: immediately after Switch to Demo the cache is empty and no API key is
\* stored, so get_data("trends") is not a hit: with the trends checkbox on it
\* reads the demo file (with it off the call is gated).
C8_SwitchToDemoClears ==
    [][\A w \in WriteOutcomes :
          SwitchToDemo(w) =>
             /\ mode' = "demo"
             /\ cache' = EmptyCache
             /\ virlo_api_key' = NoneVal
             /\ (Branch("trends", TrendsKey, FALSE))' =
                   (IF enabled_endpoints["trends"] THEN "OFFLINE" ELSE "GATED")]_vars

\* demo mode right after the switch: trends had been fetched live, nothing is cached
C8_Witness ==
    /\ mode = "demo"
    /\ virlo_api_key = NoneVal
    /\ cache = EmptyCache
    /\ credits_used >= CREDIT_COSTS["trends"]
    /\ cache_file.wellformed
    /\ cache_file.doc.cache = EmptyCache

C10_KeyIsFunctionOfPairs ==
    fp.done =>
       ((fp.ka = fp.kb) <=>
           (fp.a.endpoint = fp.b.endpoint /\ Pairs(fp.a.kwargs) = Pairs(fp.b.kwargs)))

\* the same two pairs written in two orders got one key
C10_Witness ==
    /\ fp.done
    /\ fp.a.kwargs # fp.b.kwargs
    /\ Len(fp.a.kwargs) = 2
    /\ Pairs(fp.a.kwargs) = Pairs(fp.b.kwargs)
    /\ fp.ka = fp.kb

\* C11: in every reachable state of a running session, a get_data call that misses
\* the cache on a disabled endpoint is gated: it returns the empty payload, issues
\* no remote call and leaves the cache, credits_used and the snapshot file as they
\* were, so no entry is stored for the key; and a call that misses the cache on an
\* enabled endpoint goes to the remote service or to the demo file.
C11_GatedLeavesNoTrace ==
    mode # NoneVal =>
       \A r \in Requests, force \in BOOLEAN :
          (force \/ KeyOf[r] \notin DOMAIN cache) =>
             IF ~enabled_endpoints[r.endpoint]
             THEN \A env \in Envs(Branch(r.endpoint, KeyOf[r], force)) :
                     LET res == get_data(r.endpoint, KeyOf[r], force, env)
                     IN /\ res.outcome = "GATED"
                        /\ res.ret = EmptyPayload
                        /\ ~res.remote
                        /\ res.cache = cache
                        /\ res.credits_used = credits_used
                        /\ res.cache_file = cache_file
             ELSE Branch(r.endpoint, KeyOf[r], force) \in {"LIVE", "OFFLINE"}

\* two gated get_data("trends") calls opened a live session and left nothing behind
C11_Witness ==
    /\ mode = "live"
    /\ ~enabled_endpoints["trends"]
    /\ streak.key = TrendsKey
    /\ streak.first = "GATED"
    /\ streak.n >= 2
    /\ TrendsKey \notin DOMAIN cache
    /\ credits_used = 0

\* C12: after each get_data call, Refresh Data, Connect & Go Live, sidebar Go Live,
\* Switch to Demo, Settings Go Live or Clear Cache that changes the cache or
\* credits_used, and whose snapshot write (if any) does not fail, the snapshot file
\* holds the in-memory cache and credits_used.
C12_SnapshotFollowsMutations ==
    [][((cache' # cache \/ credits_used' # credits_used)
        /\ (\/ \E r \in Requests, force \in BOOLEAN :
                  \E env \in Envs(Branch(r.endpoint, KeyOf[r], force)) :
                     env.w = "ok" /\ GetDataWith(r, force, env)
            \/ \E t \in RefreshOptions : RefreshData(t, "ok")
            \/ \E k \in ApiKeys : ConnectGoLive(k)
            \/ \E k \in ApiKeys : SidebarGoLive(k)
            \/ SwitchToDemo("ok")
            \/ \E k \in ApiKeys : SettingsGoLive(k, "ok")
            \/ ClearCache("ok")))
       => (/\ cache_file'.exists
           /\ cache_file'.wellformed
           /\ cache_file'.doc.cache = cache'
           /\ cache_file'.doc.credits_used = credits_used')]_vars

\* C13: in every reachable state load_cache_from_file on the snapshot file raises
\* nothing; on a missing or unparsable file it gives an empty cache, credits_used 0
\* and no plan or brief, on a well-formed one the cache and credits_used of the
\* document; and a session that has not left the welcome screen holds exactly what
\* the load gave.
C13_StartupLoadNeverFails ==
    LET loaded == load_cache_from_file(cache_file)
    IN /\ ~loaded.raised
       /\ (~cache_file.exists \/ ~cache_file.wellformed) =>
             /\ loaded.cache = EmptyCache
             /\ loaded.credits_used = 0
             /\ loaded.weekly_plan = NoneVal
             /\ loaded.generated_brief = NoneVal
       /\ (cache_file.exists /\ cache_file.wellformed) =>
             /\ loaded.cache = cache_file.doc.cache
             /\ loaded.credits_used = cache_file.doc.credits_used
       /\ mode = NoneVal =>
             /\ cache = loaded.cache
             /\ credits_used = loaded.credits_used
             /\ weekly_plan = loaded.weekly_plan
             /\ generated_brief = loaded.generated_brief

\* a session started on a snapshot file that a failed write had truncated
C13_Witness ==
    /\ mode = NoneVal
    /\ cache_file = TruncatedFile
    /\ write_failures >= 1
    /\ cache = EmptyCache
    /\ credits_used = 0
    /\ issued >= 1

\* C14: in every reachable state, a live get_data call whose snapshot write fails
\* raises nothing and returns the payload the remote call gave, and leaves the
\* cache and credits_used exactly as the same call with a successful write does.
C14_FailedWriteIsSwallowed ==
    mode # NoneVal =>
       \A r \in Requests, force \in BOOLEAN :
          Branch(r.endpoint, KeyOf[r], force) = "LIVE" =>
             \A net \in NetOutcomes, w \in WriteOutcomes \ {"ok"} :
                LET res == get_data(r.endpoint, KeyOf[r], force, Env(net, w, "present"))
                    written == get_data(r.endpoint, KeyOf[r], force, Env(net, "ok", "present"))
                IN /\ res.outcome # "RAISED"
                   /\ res.ret = ApiGet(r.endpoint, net)
                   /\ res.outcome = written.outcome
                   /\ res.ret = written.ret
                   /\ res.cache = written.cache
                   /\ res.credits_used = written.credits_used

\* a live trends fetch whose write failed before the file was opened: the entry and
\* the charge are in memory, no snapshot exists
C14_Witness ==
    /\ mode = "live"
    /\ write_failures >= 1
    /\ ~cache_file.exists
    /\ TrendsKey \in DOMAIN cache
    /\ cache[TrendsKey] = RemotePayload("trends")
    /\ credits_used = CREDIT_COSTS["trends"]

\* C15: in every reachable state, a get_data call in Demo mode that reads a demo
\* file which is absent or does not parse raises nothing and returns the empty
\* payload.
C15_OfflineNeverFails ==
    mode = "demo" =>
       \A r \in Requests, force \in BOOLEAN :
          Branch(r.endpoint, KeyOf[r], force) = "OFFLINE" =>
             \A demo \in {"absent", "malformed"} :
                LET res == get_data(r.endpoint, KeyOf[r], force, Env("ok", "ok", demo))
                IN /\ res.outcome # "RAISED"
                   /\ res.ret = EmptyPayload

\* C16: credits_used is a natural number, and every step either leaves it alone,
\* or is a get_data call that issued a remote request and adds exactly the cost
\* of the requested endpoint, or is Reset App (which zeroes it), or is the start
\* of a new session (which takes the value the snapshot holds); so get_data,
\* Refresh Data, the mode switches and Clear Cache never decrease it.
C16_CreditsOnlyGrowByFetch ==
    [][/\ credits_used \in Nat
       /\ credits_used' \in Nat
       /\ \/ credits_used' = credits_used
          \/ \E r \in Requests, force \in BOOLEAN :
                \E env \in Envs(Branch(r.endpoint, KeyOf[r], force)) :
                   /\ GetDataWith(r, force, env)
                   /\ get_data(r.endpoint, KeyOf[r], force, env).remote
                   /\ credits_used' = credits_used + CREDIT_COSTS[r.endpoint]
          \/ ResetApp /\ credits_used' = 0
          \/ Restart /\ credits_used' = load_cache_from_file(cache_file).credits_used]_vars

C16_Witness ==
    /\ mode = "demo"
    /\ virlo_api_key = NoneVal
    /\ cache = EmptyCache
    /\ credits_used = CREDIT_COSTS["trends"] + CREDIT_COSTS["hashtags"]
    /\ issued = 2

\* C17: in every reachable state of a running session, get_data with
\* force_refresh=True on an enabled endpoint takes the live or the demo branch,
\* never the cache hit; in Live mode with a key it issues a remote request, adds
\* the endpoint's cost to credits_used once, stores the payload it returns under
\* the key and leaves every other entry as it was.
C17_ForcedRefreshOverwrites ==
    mode # NoneVal =>
       \A r \in Requests :
          enabled_endpoints[r.endpoint] =>
             /\ Branch(r.endpoint, KeyOf[r], TRUE) \in {"LIVE", "OFFLINE"}
             /\ \A env \in Envs(Branch(r.endpoint, KeyOf[r], TRUE)) :
                   LET res == get_data(r.endpoint, KeyOf[r], TRUE, env)
                   IN /\ res.outcome \notin {"HIT", "GATED"}
                      /\ (mode = "live" /\ Truthy(virlo_api_key)) =>
                            /\ res.remote
                            /\ res.credits_used = credits_used + CREDIT_COSTS[r.endpoint]
                            /\ res.ret = ApiGet(r.endpoint, env.net)
                            /\ DOMAIN res.cache = DOMAIN cache \cup {KeyOf[r]}
                            /\ res.cache[KeyOf[r]] = res.ret
                            /\ \A k \in DOMAIN cache \ {KeyOf[r]} : res.cache[k] = cache[k]

C17_Witness ==
    /\ mode = "live"
    /\ issued = 2
    /\ write_failures = 1
    /\ credits_used = 2 * CREDIT_COSTS["trends"]
    /\ DOMAIN cache = {TrendsKey}
    /\ cache[TrendsKey] = EmptyPayload
    /\ cache_file.exists /\ cache_file.wellformed
    /\ TrendsKey \in DOMAIN cache_file.doc.cache
    /\ cache_file.doc.cache[TrendsKey] = RemotePayload("trends")

\* C18: in every reachable state, a get_data call made in Demo mode does not
\* return a payload fetched from the remote service, and a get_data call made
\* in Live mode does not return a payload read from the demo files.
C18_PayloadMatchesMode ==
    \A r \in Requests, force \in BOOLEAN :
       \A env \in Envs(Branch(r.endpoint, KeyOf[r], force)) :
          LET res == get_data(r.endpoint, KeyOf[r], force, env)
          IN /\ mode = "demo" => res.ret # RemotePayload(r.endpoint)
             /\ mode = "live" => res.ret # DemoPayload(r.endpoint)

\* C19: in every reachable state the mode is "live" exactly when a non-empty API
\* key is stored, so no get_data call made in Live mode falls through to the
\* demo files.
C19_LiveIffKey ==
    /\ (mode = "live") <=> (virlo_api_key # NoneVal /\ virlo_api_key # "")
    /\ mode = "live" =>
          \A r \in Requests, force \in BOOLEAN :
             Branch(r.endpoint, KeyOf[r], force) # "OFFLINE"

C19_Witness ==
    /\ mode = "demo"
    /\ virlo_api_key = NoneVal
    /\ issued >= 1
    /\ credits_used > 0
    /\ write_failures = 0
    /\ cache # EmptyCache

\* C20: every snapshot holds the cache, the weekly plan, the generated brief,
\* credits_used and a timestamp and nothing else, and a restart of a session
\* that has a snapshot and whose snapshot writes all succeeded leaves mode None
\* and no API key while cache and credits_used are those of the session that
\* ended.
C20_RestartRestoresSession ==
    [][/\ DOMAIN cache_file.doc =
             {"cache", "weekly_plan", "generated_brief", "credits_used", "timestamp"}
       /\ (Restart /\ cache_file.exists /\ write_failures = 0) =>
             /\ mode' = NoneVal
             /\ virlo_api_key' = NoneVal
             /\ cache' = cache
             /\ credits_used' = credits_used]_vars

\* C21: every Reset App step ends in the state a first start has: mode None, no
\* API key, an empty cache, credits_used 0, no plan, no brief, every endpoint
\* enabled, and no snapshot file, so that the startup load of the rerun finds
\* nothing of the session that was reset.
C21_ResetReturnsToInitial ==
    [][ResetApp =>
          /\ mode' = NoneVal
          /\ virlo_api_key' = NoneVal
          /\ cache' = EmptyCache
          /\ credits_used' = 0
          /\ weekly_plan' = NoneVal
          /\ generated_brief' = NoneVal
          /\ enabled_endpoints' = AllEnabled
          /\ ~cache_file'.exists
          /\ LET loaded == load_cache_from_file(cache_file')
             IN /\ loaded.cache = EmptyCache
                /\ loaded.credits_used = 0
                /\ loaded.weekly_plan = NoneVal
                /\ loaded.generated_brief = NoneVal]_vars

C21_Witness ==
    /\ mode = NoneVal
    /\ virlo_api_key = NoneVal
    /\ cache = EmptyCache
    /\ credits_used = 0
    /\ weekly_plan = NoneVal
    /\ generated_brief = NoneVal
    /\ enabled_endpoints = AllEnabled
    /\ ~cache_file.exists
    /\ write_failures >= 1

====
